---------------------------- MODULE Spec2Model ----------------------------
(***************************************************************************)
(* Model of app.py: the whitelist gateway.  One HTTP submission to         *)
(* /api/whitelist is handled by whitelist_user, which sanitises the name   *)
(* and calls send_rcon_command once or twice.  The socket probe, the       *)
(* remote console client (MCRcon) and the server's answers are the         *)
(* environment: their outcomes are chosen nondeterministically.            *)
(*                                                                         *)
(* Strings are modelled as sequences.  A user name is a sequence of        *)
(* one-character strings; a server response, a fault description and a     *)
(* user message are sequences of fragments, and the substring test         *)
(* `"x" in s` is membership of the fragment "x" in the sequence.           *)
(***************************************************************************)
EXTENDS Integers, Sequences, FiniteSets, TLC

VARIABLES
    pc,                   \* position of the request inside whitelist_user / send_rcon_command
    raw_username,         \* data.get('username')
    username,             \* sanitize_username(raw_username)
    att,                  \* which call of send_rcon_command is running: "java", "bedrock" or "none"
    arg,                  \* the username parameter of the running send_rcon_command
    connect_ex,           \* per call: the result codes of sock.connect_ex, one per probe
    opens,                \* the calls that tried to open an MCRcon session (authentication attempts)
    sessions,             \* the calls whose MCRcon session is open now
    log,                  \* commands handed to mcr.command, in order, over the whole request
    response,             \* local `response` of the running send_rcon_command
    last_fault,           \* the exception caught by the running/last send_rcon_command
    attempts,             \* the arguments of the calls of send_rcon_command, in order
    java_success,
    java_response_msg,
    bedrock_success,
    bedrock_response_msg,
    bedrock_username,
    result                \* the HTTP response of whitelist_user, or NoResult

vars == <<pc, raw_username, username, att, arg, connect_ex, opens, sessions, log,
          response, last_fault, attempts, java_success, java_response_msg,
          bedrock_success, bedrock_response_msg, bedrock_username, result>>

-----------------------------------------------------------------------------
(* Bounds of the model *)

MaxLen == 2        \* longest raw username submitted
MaxResp == 2       \* most fragments in a server response
MaxDesc == 2       \* most fragments in a fault description

-----------------------------------------------------------------------------
(* Strings *)

Strings(T, n) == UNION {[1..k -> T] : k \in 0..n}

\* Python `x in s` for a fragment x.
Contains(s, x) == \E i \in DOMAIN s : s[i] = x

\* Python str.startswith.
startswith(s, p) == Len(s) >= Len(p) /\ SubSeq(s, 1, Len(p)) = p

\* Python truthiness of a string or list: `not s`.
Falsy_Never(s) == FALSE
Falsy(s) == s = <<>>

-----------------------------------------------------------------------------
(* Configuration *)

BEDROCK_PREFIX == <<".">>

-----------------------------------------------------------------------------
(* sanitize_username *)

Upper == {"A","B","C","D","E","F","G","H","I","J","K","L","M",
          "N","O","P","Q","R","S","T","U","V","W","X","Y","Z"}
Lower == {"a","b","c","d","e","f","g","h","i","j","k","l","m",
          "n","o","p","q","r","s","t","u","v","w","x","y","z"}
Digits == {"0","1","2","3","4","5","6","7","8","9"}

\* The characters the class [^a-zA-Z0-9_ \.] does not match.
Permitted == Upper \cup Lower \cup Digits \cup {"_", " ", "."}

\* The characters str.strip() removes at both ends.
Whitespace == {" ", "\t", "\n", "\r"}

RECURSIVE re_sub(_)
re_sub(s) ==
    IF s = <<>> THEN <<>>
    ELSE IF Head(s) \in Permitted THEN <<Head(s)>> \o re_sub(Tail(s))
    ELSE re_sub(Tail(s))

RECURSIVE lstrip(_)
lstrip(s) ==
    IF s # <<>> /\ Head(s) \in Whitespace THEN lstrip(Tail(s)) ELSE s

RECURSIVE rstrip(_)
rstrip(s) ==
    IF s # <<>> /\ s[Len(s)] \in Whitespace THEN rstrip(SubSeq(s, 1, Len(s) - 1)) ELSE s

strip(s) == rstrip(lstrip(s))

RECURSIVE re_sub_NoDot(_)
re_sub_NoDot(s) ==
    IF s = <<>> THEN <<>>
    ELSE IF Head(s) \in Permitted \ {"."} THEN <<Head(s)>> \o re_sub_NoDot(Tail(s))
    ELSE re_sub_NoDot(Tail(s))

sanitize_username_NoDot(name) == strip(re_sub_NoDot(name))

sanitize_username(name) == strip(re_sub(name))

-----------------------------------------------------------------------------
(* The environment: submitted names, probe results, responses, faults *)

RawChars == {"a", ".", " ", "!"}
RawInputs == Strings(RawChars, MaxLen)

ConnectExResults == {0, 111}     \* 0, or an errno such as ECONNREFUSED

check_port_open_Always(code) == TRUE
check_port_open(code) == code = 0

RespFragments == {"Added", "already", "does not exist", "misc"}
Responses == Strings(RespFragments, MaxResp)

DescFragments == {"Authentication failed", "timed out", "misc"}
Faults == [kind : {"ConnectionRefusedError", "Exception"},
           desc : Strings(DescFragments, MaxDesc)]
NoFault == [kind |-> "none", desc |-> <<>>]

Calls == {"java", "bedrock"}

-----------------------------------------------------------------------------
(* send_rcon_command: the values it returns *)

NotListening == <<"Server is not listening on the RCON port. Ask admin to check server.properties.">>
Refused == <<"Connection Refused. Server running?">>
AuthFailed == <<"RCON Authentication failed. Check password in .env">>
TimedOut == <<"Connection timed out.">>
Generic(desc) == <<"RCON Error: ">> \o desc

\* The except clauses.
ClassifyFault_TimeoutFirst(f) ==
    IF f.kind = "ConnectionRefusedError" THEN Refused
    ELSE IF Contains(f.desc, "timed out") THEN TimedOut
    ELSE IF Contains(f.desc, "Authentication failed") THEN AuthFailed
    ELSE Generic(f.desc)

ClassifyFault(f) ==
    IF f.kind = "ConnectionRefusedError" THEN Refused
    ELSE IF Contains(f.desc, "Authentication failed") THEN AuthFailed
    ELSE IF Contains(f.desc, "timed out") THEN TimedOut
    ELSE Generic(f.desc)

\* The commands of one session.
Cmd(verb, name, done) == [att |-> att, verb |-> verb, name |-> name, completed |-> done]
SayCmd(done) == Cmd("say", arg, done)
AddCmd(done) == Cmd("whitelist add", arg, done)
Add2Cmd(done) == Cmd("whitelist add", <<".">> \o arg, done)
ReloadCmd(done) == Cmd("whitelist reload", <<>>, done)

\* Leaving the `with MCRcon(...)` block.
MCRcon_exit_Leak(a) == sessions
MCRcon_exit(a) == sessions \ {a}

\* `return ok, msg` to whitelist_user, which binds it to the java_ or bedrock_ pair;
\* the local `response` ends with the call.
Return(ok, msg) ==
    /\ response' = <<>>
    /\ IF att = "java"
       THEN /\ java_success' = ok
            /\ java_response_msg' = msg
            /\ UNCHANGED <<bedrock_success, bedrock_response_msg>>
            /\ pc' = "decide"
       ELSE /\ bedrock_success' = ok
            /\ bedrock_response_msg' = msg
            /\ UNCHANGED <<java_success, java_response_msg>>
            /\ pc' = "combine"

\* Entering send_rcon_command(name) as call a.
Call(a, name) ==
    /\ att' = a
    /\ arg' = name
    /\ attempts' = Append(attempts, name)
    /\ response' = <<>>
    /\ last_fault' = NoFault
    /\ pc' = "port"

-----------------------------------------------------------------------------
(* whitelist_user: the final response *)

NoResult == [success |-> FALSE, status |-> 0, message |-> <<>>]

Msg(text, name, body) == [text |-> text, name |-> name, body |-> body]

Classify(who, name, resp) ==
    IF Contains(resp, "Added") THEN Msg("added to the whitelist", name, <<>>)
    ELSE IF Contains(resp, "already") THEN Msg("is already whitelisted", name, <<>>)
    ELSE IF Contains(resp, "does not exist") THEN Msg(who \o " username not found", name, <<>>)
    ELSE Msg(who \o " attempt response", <<>>, resp)

SuccessMessages ==
    (IF java_success THEN <<Classify("Java", username, java_response_msg)>> ELSE <<>>)
    \o (IF bedrock_success
        THEN <<Classify("Bedrock", bedrock_username, bedrock_response_msg)>> ELSE <<>>)

ErrorMessages ==
    (IF ~Falsy(java_response_msg)
     THEN <<Msg("Java attempt failed", <<>>, java_response_msg)>> ELSE <<>>)
    \o (IF ~Falsy(bedrock_response_msg)
        THEN <<Msg("Bedrock attempt failed", <<>>, bedrock_response_msg)>> ELSE <<>>)

FinalResult ==
    IF java_success \/ bedrock_success
    THEN [success |-> TRUE, status |-> 200,
          message |-> IF ~Falsy(SuccessMessages) THEN SuccessMessages
                      ELSE <<Msg("Whitelist operation completed.", <<>>, <<>>)>>]
    ELSE [success |-> FALSE, status |-> 500,
          message |-> IF ~Falsy(ErrorMessages) THEN ErrorMessages
                      ELSE <<Msg("Failed to whitelist username.", <<>>, <<>>)>>]

\* The condition of the second call.
SecondAttempt_NoPrefixTest(ok, name) == ~ok
SecondAttempt(ok, name) == ~ok /\ ~startswith(name, BEDROCK_PREFIX)

-----------------------------------------------------------------------------
(* Initial state: the application is up and no request has arrived *)

Init ==
    /\ pc = "recv"
    /\ raw_username = <<>>
    /\ username = <<>>
    /\ att = "none"
    /\ arg = <<>>
    /\ connect_ex = [a \in Calls |-> <<>>]
    /\ opens = {}
    /\ sessions = {}
    /\ log = <<>>
    /\ response = <<>>
    /\ last_fault = NoFault
    /\ attempts = <<>>
    /\ java_success = FALSE
    /\ java_response_msg = <<>>
    /\ bedrock_success = FALSE
    /\ bedrock_response_msg = <<>>
    /\ bedrock_username = <<>>
    /\ result = NoResult

-----------------------------------------------------------------------------
(* whitelist_user, up to the first call of send_rcon_command *)

ReceiveRequest ==
    /\ pc = "recv"
    /\ \E raw \in RawInputs :
        /\ raw_username' = raw
        /\ IF Falsy(raw)
           THEN /\ result' = [success |-> FALSE, status |-> 400,
                              message |-> <<Msg("Username required", <<>>, <<>>)>>]
                /\ pc' = "done"
                /\ UNCHANGED <<username, att, arg, attempts, response, last_fault>>
           ELSE /\ username' = sanitize_username(raw)
                /\ IF Falsy(username')
                   THEN /\ result' = [success |-> FALSE, status |-> 400,
                                      message |-> <<Msg("Invalid username format", <<>>, <<>>)>>]
                        /\ pc' = "done"
                        /\ UNCHANGED <<att, arg, attempts, response, last_fault>>
                   ELSE /\ Call("java", username')
                        /\ UNCHANGED result
    /\ UNCHANGED <<connect_ex, opens, sessions, log, java_success, java_response_msg,
                   bedrock_success, bedrock_response_msg, bedrock_username>>

-----------------------------------------------------------------------------
(* send_rcon_command *)

\* The pre-check: the port is closed and the call returns at once.
PortClosed ==
    /\ pc = "port"
    /\ \E code \in ConnectExResults :
        /\ ~check_port_open(code)
        /\ connect_ex' = [connect_ex EXCEPT ![att] = Append(@, code)]
    /\ Return(FALSE, NotListening)
    /\ UNCHANGED <<raw_username, username, att, arg, opens, sessions, log,
                   last_fault, attempts, bedrock_username, result>>

\* The pre-check: the port is open.
PortOpen ==
    /\ pc = "port"
    /\ \E code \in ConnectExResults :
        /\ check_port_open(code)
        /\ connect_ex' = [connect_ex EXCEPT ![att] = Append(@, code)]
    /\ pc' = "connect"
    /\ UNCHANGED <<raw_username, username, att, arg, opens, sessions, log, response,
                   last_fault, attempts, java_success, java_response_msg,
                   bedrock_success, bedrock_response_msg, bedrock_username, result>>

\* `with MCRcon(...) as mcr` connects and logs in.
SessionOpen ==
    /\ pc = "connect"
    /\ opens' = opens \cup {att}
    /\ sessions' = sessions \cup {att}
    /\ pc' = "say"
    /\ UNCHANGED <<raw_username, username, att, arg, connect_ex, log, response,
                   last_fault, attempts, java_success, java_response_msg,
                   bedrock_success, bedrock_response_msg, bedrock_username, result>>

\* Connecting or logging in raises: no session comes to exist.
SessionOpenFault ==
    /\ pc = "connect"
    /\ opens' = opens \cup {att}
    /\ \E f \in Faults :
        /\ last_fault' = f
        /\ Return(FALSE, ClassifyFault(f))
    /\ UNCHANGED <<raw_username, username, att, arg, connect_ex, sessions, log,
                   attempts, bedrock_username, result>>

\* mcr.command(f'say {username} has signed up for the server!')
CommandSay ==
    /\ pc = "say"
    /\ log' = Append(log, SayCmd(TRUE))
    /\ pc' = "add"
    /\ UNCHANGED <<raw_username, username, att, arg, connect_ex, opens, sessions,
                   response, last_fault, attempts, java_success, java_response_msg,
                   bedrock_success, bedrock_response_msg, bedrock_username, result>>

\* response = mcr.command(command)
CommandAdd ==
    /\ pc = "add"
    /\ log' = Append(log, AddCmd(TRUE))
    /\ \E r \in Responses : response' = r
    /\ pc' = "add2"
    /\ UNCHANGED <<raw_username, username, att, arg, connect_ex, opens, sessions,
                   last_fault, attempts, java_success, java_response_msg,
                   bedrock_success, bedrock_response_msg, bedrock_username, result>>

\* response2 = mcr.command(command2)
CommandAdd2 ==
    /\ pc = "add2"
    /\ log' = Append(log, Add2Cmd(TRUE))
    /\ pc' = "reload"
    /\ UNCHANGED <<raw_username, username, att, arg, connect_ex, opens, sessions,
                   response, last_fault, attempts, java_success, java_response_msg,
                   bedrock_success, bedrock_response_msg, bedrock_username, result>>

\* mcr.command('whitelist reload'); return True, response
CommandReload ==
    /\ pc = "reload"
    /\ log' = Append(log, ReloadCmd(TRUE))
    /\ sessions' = MCRcon_exit(att)
    /\ Return(TRUE, response)
    /\ UNCHANGED <<raw_username, username, att, arg, connect_ex, opens,
                   last_fault, attempts, bedrock_username, result>>

\* The command the session is about to send.
NextCmd(done) ==
    CASE pc = "say" -> SayCmd(done)
      [] pc = "add" -> AddCmd(done)
      [] pc = "add2" -> Add2Cmd(done)
      [] pc = "reload" -> ReloadCmd(done)

\* mcr.command raises: the with block is left and an except clause returns.
CommandFault ==
    /\ pc \in {"say", "add", "add2", "reload"}
    /\ log' = Append(log, NextCmd(FALSE))
    /\ sessions' = MCRcon_exit(att)
    /\ \E f \in Faults :
        /\ last_fault' = f
        /\ Return(FALSE, ClassifyFault(f))
    /\ UNCHANGED <<raw_username, username, att, arg, connect_ex, opens,
                   attempts, bedrock_username, result>>

-----------------------------------------------------------------------------
(* whitelist_user, after the first call *)

\* The second call is made.
BedrockAttempt ==
    /\ pc = "decide"
    /\ SecondAttempt(java_success, username)
    /\ bedrock_username' = BEDROCK_PREFIX \o username
    /\ Call("bedrock", bedrock_username')
    /\ UNCHANGED <<raw_username, username, connect_ex, opens, sessions, log,
                   java_success, java_response_msg, bedrock_success,
                   bedrock_response_msg, result>>

\* The second call is skipped.
NoBedrockAttempt ==
    /\ pc = "decide"
    /\ ~SecondAttempt(java_success, username)
    /\ pc' = "combine"
    /\ UNCHANGED <<raw_username, username, att, arg, connect_ex, opens, sessions, log,
                   response, last_fault, attempts, java_success, java_response_msg,
                   bedrock_success, bedrock_response_msg, bedrock_username, result>>

\* Combine the results into the HTTP response.
Combine ==
    /\ pc = "combine"
    /\ result' = FinalResult
    /\ pc' = "done"
    /\ UNCHANGED <<raw_username, username, att, arg, connect_ex, opens, sessions, log,
                   response, last_fault, attempts, java_success, java_response_msg,
                   bedrock_success, bedrock_response_msg, bedrock_username>>

Next ==
    \/ ReceiveRequest
    \/ PortClosed
    \/ PortOpen
    \/ SessionOpen
    \/ SessionOpenFault
    \/ CommandSay
    \/ CommandAdd
    \/ CommandAdd2
    \/ CommandReload
    \/ CommandFault
    \/ BedrockAttempt
    \/ NoBedrockAttempt
    \/ Combine

Spec == Init /\ [][Next]_vars

-----------------------------------------------------------------------------
(* Vocabulary of the properties *)

Called(a) == IF a = "java" THEN Len(attempts) >= 1 ELSE Len(attempts) = 2
NameOf(a) == IF a = "java" THEN attempts[1] ELSE attempts[2]
Returned(a) ==
    IF a = "java" THEN Called(a) /\ (att = "bedrock" \/ pc \in {"decide", "combine", "done"})
    ELSE Called(a) /\ pc \in {"combine", "done"}
RetOk(a) == IF a = "java" THEN java_success ELSE bedrock_success
RetMsg(a) == IF a = "java" THEN java_response_msg ELSE bedrock_response_msg

\* The commands handed to the session of call a, as <<verb, name>> pairs.
EntriesOf(a) == SelectSeq(log, LAMBDA e : e.att = a)
Issued(a) == [i \in 1..Len(EntriesOf(a)) |-> <<EntriesOf(a)[i].verb, EntriesOf(a)[i].name>>]
Expected(n) == << <<"say", n>>, <<"whitelist add", n>>, <<"whitelist reload", <<>> >> >>

IsPrefix(s, t) == Len(s) <= Len(t) /\ SubSeq(t, 1, Len(s)) = s

NotFound(resp) ==
    /\ Contains(resp, "does not exist")
    /\ ~Contains(resp, "Added")
    /\ ~Contains(resp, "already")

-----------------------------------------------------------------------------
(* Properties *)

\* C1: within the session of a call for name N the commands are exactly
\* say N, whitelist add N, whitelist reload, in this order, nothing in between;
\* in particular the only whitelist-add of a session names N.
C1_FixedSequence ==
    \A a \in Calls :
        Called(a) =>
            /\ IsPrefix(Issued(a), Expected(NameOf(a)))
            /\ (Returned(a) /\ RetOk(a) => Issued(a) = Expected(NameOf(a)))

\* C2: the primary name is tried first, and the prefixed name is tried afterwards
\* exactly when (the primary call was not connected or its response does not
\* indicate success) and the canonical name does not start with the prefix.
C2_SecondAttemptIff ==
    pc = "done" /\ Called("java") =>
        /\ attempts[1] = username
        /\ Called("bedrock") <=>
              /\ ~java_success \/ NotFound(java_response_msg)
              /\ ~startswith(username, BEDROCK_PREFIX)

\* C3: a connected call whose whitelist-add response says "does not exist"
\* (and neither "Added" nor "already") makes the submission fail with status 400.
C3_NotFoundIs400 ==
    pc = "done" /\ (\E a \in Calls : Called(a) /\ RetOk(a) /\ NotFound(RetMsg(a))) =>
        result.success = FALSE /\ result.status = 400

\* C4: a raw username whose sanitized form is empty gets the validation failure
\* (success false, 400), and at no point of the request is there a port probe,
\* a session open or a remote command.
C4_EmptyRejectedBeforeNetwork ==
    pc # "recv" /\ sanitize_username(raw_username) = <<>> =>
        /\ pc = "done"
        /\ result.success = FALSE /\ result.status = 400
        /\ attempts = <<>>
        /\ \A a \in Calls : connect_ex[a] = <<>>
        /\ opens = {} /\ sessions = {}
        /\ log = <<>>

C4_Witness ==
    /\ pc = "done"
    /\ Contains(raw_username, "!")
    /\ Contains(raw_username, " ")
    /\ username = <<>>
    /\ result.status = 400

\* C5: a call whose port probe found the endpoint unreachable opens no session,
\* tries no authentication, sends no command, and returns (False, the
\* "not listening on the RCON port" reason).
C5_UnreachableNoSession ==
    \A a \in Calls :
        (\E i \in DOMAIN connect_ex[a] : connect_ex[a][i] # 0) =>
            /\ a \notin opens
            /\ a \notin sessions
            /\ EntriesOf(a) = <<>>
            /\ RetOk(a) = FALSE
            /\ RetMsg(a) = NotListening

C5_Witness ==
    /\ pc = "done"
    /\ connect_ex["java"] = <<0>>
    /\ connect_ex["bedrock"] = <<111>>
    /\ opens = {"java"}
    /\ bedrock_response_msg = NotListening

\* C6: a submission makes at most two calls of send_rcon_command; when the
\* canonical name does not start with the prefix and the primary call failed,
\* exactly one more call is made, with prefix + canonical; when the canonical
\* name starts with the prefix there is no second call.
C6_AtMostTwoAttempts ==
    /\ Len(attempts) <= 2
    /\ startswith(username, BEDROCK_PREFIX) => Len(attempts) <= 1
    /\ (pc \in {"combine", "done"} /\ Called("java") /\ ~java_success
            /\ ~startswith(username, BEDROCK_PREFIX)) =>
        attempts = <<username, BEDROCK_PREFIX \o username>>

C6_Witness ==
    /\ pc = "done"
    /\ ~java_success
    /\ username = <<"a">>
    /\ attempts = << <<"a">>, <<".", "a">> >>

\* C7: a fault raised while opening the session or running a command yields
\* (False, reason), the reason being no server response and exactly: the
\* connection-refused reason for a connection-refused fault; otherwise the
\* authentication reason when the description contains "Authentication failed";
\* otherwise the timeout reason when it contains "timed out"; otherwise
\* "RCON Error: " followed by the description.
C7_FaultClassification ==
    last_fault # NoFault =>
        /\ RetOk(att) = FALSE
        /\ RetMsg(att) \notin Responses
        /\ last_fault.kind = "ConnectionRefusedError" => RetMsg(att) = Refused
        /\ (last_fault.kind # "ConnectionRefusedError"
                /\ Contains(last_fault.desc, "Authentication failed")) =>
            RetMsg(att) = AuthFailed
        /\ (last_fault.kind # "ConnectionRefusedError"
                /\ ~Contains(last_fault.desc, "Authentication failed")
                /\ Contains(last_fault.desc, "timed out")) =>
            RetMsg(att) = TimedOut
        /\ (last_fault.kind # "ConnectionRefusedError"
                /\ ~Contains(last_fault.desc, "Authentication failed")
                /\ ~Contains(last_fault.desc, "timed out")) =>
            RetMsg(att) = <<"RCON Error: ">> \o last_fault.desc

C7_Witness ==
    /\ last_fault = [kind |-> "Exception", desc |-> <<"timed out", "Authentication failed">>]
    /\ att = "java"
    /\ opens = {"java"}
    /\ log = <<>>
    /\ java_response_msg = AuthFailed

\* C8: a session opened by a call is closed before the call returns, on every
\* exit path; no session is open when the request completes, and at most one
\* session of the request is open at any time.
C8_SessionsClosed ==
    /\ Cardinality(sessions) <= 1
    /\ sessions \subseteq {att}
    /\ pc \in {"recv", "port", "connect", "decide", "combine", "done"} => sessions = {}

C8_Witness ==
    /\ pc = "done"
    /\ sessions = {}
    /\ \E i \in DOMAIN log : log[i].att = "java" /\ log[i].verb = "whitelist reload"
                              /\ ~log[i].completed
    /\ \E i \in DOMAIN log : log[i].att = "bedrock" /\ log[i].verb = "whitelist reload"
                              /\ log[i].completed

\* C9, as stated: the sanitized name is empty only if the raw input held no
\* permitted character (A-Z, a-z, 0-9, underscore, space, dot).
C9_EmptyOnlyIfNoPermitted ==
    pc # "recv" /\ raw_username # <<>> /\ username = <<>> =>
        \A i \in DOMAIN raw_username : raw_username[i] \notin Permitted

\* C9, amended: the sanitized name is empty only if the raw input held no
\* permitted character other than the space.
C9_EmptyOnlyIfNoPermittedButSpace ==
    pc # "recv" /\ raw_username # <<>> /\ username = <<>> =>
        \A i \in DOMAIN raw_username : raw_username[i] \notin Permitted \ {" "}

C9_Witness ==
    /\ pc # "recv"
    /\ raw_username = <<" ", " ">>
    /\ username = <<>>

\* C10: a submission that ends with the failure result (success false, 500) had
\* no whitelist-add command executed by the server in any of its sessions.
C10_FailureMeansNoAdd ==
    pc = "done" /\ result.success = FALSE /\ result.status = 500 =>
        \A i \in DOMAIN log : ~(log[i].verb = "whitelist add" /\ log[i].completed)

=============================================================================
